---- MODULE Spec2Model ----
(***************************************************************************)
(* A model of twisted.python.logger._format: formatting of log events,     *)
(* flattening (snapshotting the template's fields into the event), the     *)
(* KeyFlattener that names field references, field extraction and the      *)
(* classic one-line text.                                                  *)
(*                                                                         *)
(* Python text is a TLA+ string.  A Python dict is a sequence of           *)
(* <<key, value>> pairs in insertion order.  Python objects are records    *)
(* tagged by "cls".  A call's outcome is Ok(value) or Raise(type, msg).    *)
(* Python semantics are those of Python 3 (unicode = str).                 *)
(***************************************************************************)
EXTENDS Integers, Sequences, FiniteSets, TLC

VARIABLES
    event,      \* the log event: a dict, as a sequence of <<key, value>>
    cell,       \* the state of the mutable object the event's fields refer to
    op,         \* the operation performed last
    arg,        \* its argument besides the event (extractField's field)
    ret,        \* its outcome: Ok(value) or Raise(type, msg)
    flattened,  \* flattenEvent has stored log_flattened into the event
    resolved,   \* the field references flattenEvent's last call resolved, in order
    liveText,   \* <<what formatEvent returned on the unflattened event>>, <<>> if unknown
    snapText,   \* <<what formatEvent first returned after flattening>>, <<>> if unknown
    keys,       \* one KeyFlattener instance: self.keys
    calls       \* the flatKey calls made on it: <<fieldName, formatSpec, conversion, result>>

vars == <<event, cell, op, arg, ret, flattened, resolved, liveText, snapText, keys, calls>>

\* Bounds of the model.
MaxCell == 1
MaxCalls == 4

-----------------------------------------------------------------------------
(* Outcomes and Python objects *)

Ok(v) == [raised |-> FALSE, val |-> v]
Raise(type, msg) == [raised |-> TRUE, type |-> type, msg |-> msg, strOk |-> TRUE]
\* an exception whose own __str__ raises
RaiseBad(type) == [raised |-> TRUE, type |-> type, msg |-> "", strOk |-> FALSE]

None == [cls |-> "NoneType"]
IntObj(n) == [cls |-> "int", n |-> n]
StrObj(s) == [cls |-> "str", s |-> s]
BytesObj(s) == [cls |-> "bytes", s |-> s]          \* bytes that decode (UTF-8) to s
DictObj(d) == [cls |-> "dict", d |-> d]
Function(body) == [cls |-> "function", body |-> body]
Method(body) == [cls |-> "method", body |-> body]
Level(name) == [cls |-> "LogLevel", name |-> name]
ObjectA == [cls |-> "A"]                       \* attributes n (data) and b (method)
Unprintable == [cls |-> "Unprintable"]         \* __str__ and __repr__ raise

\* None in a slot that otherwise holds text (Formatter.parse's tuples).
NoneTok == "<None>"

IsNone(v) == v.cls = "NoneType"

-----------------------------------------------------------------------------
(* Text helpers *)

Char(s, i) == SubSeq(s, i, i)

EndsWith(s, suffix) ==
    /\ Len(s) >= Len(suffix)
    /\ SubSeq(s, Len(s) - Len(suffix) + 1, Len(s)) = suffix

StartsWith(s, prefix) ==
    /\ Len(s) >= Len(prefix)
    /\ SubSeq(s, 1, Len(prefix)) = prefix

\* index of the first ch in s at or after i, 0 if none
RECURSIVE Find(_, _, _)
Find(s, ch, i) ==
    IF i > Len(s) THEN 0
    ELSE IF Char(s, i) = ch THEN i
    ELSE Find(s, ch, i + 1)

\* str.replace(old, new) for a one-character old
RECURSIVE Replace(_, _, _)
Replace(s, old, new) ==
    IF Len(s) = 0 THEN ""
    ELSE IF Len(s) = 1 THEN (IF s = old THEN new ELSE s)
    ELSE LET half == Len(s) \div 2
         IN  Replace(SubSeq(s, 1, half), old, new)
                 \o Replace(SubSeq(s, half + 1, Len(s)), old, new)

\* sep.join(parts)
RECURSIVE Join(_, _)
Join(sep, parts) ==
    IF parts = <<>> THEN ""
    ELSE IF Len(parts) = 1 THEN parts[1]
    ELSE parts[1] \o sep \o Join(sep, Tail(parts))

-----------------------------------------------------------------------------
(* dict operations, insertion-ordered *)

RECURSIVE IndexOf(_, _, _)
IndexOf(d, k, i) ==
    IF i > Len(d) THEN 0
    ELSE IF d[i][1] = k THEN i
    ELSE IndexOf(d, k, i + 1)

Has(d, k) == IndexOf(d, k, 1) # 0
Get(d, k) == d[IndexOf(d, k, 1)][2]
\* d.get(k, None)
GetOrNone(d, k) == IF Has(d, k) THEN Get(d, k) ELSE None
\* d[k] = v: an existing key keeps its place, a new one goes last
Set(d, k, v) ==
    IF Has(d, k) THEN [d EXCEPT ![IndexOf(d, k, 1)] = <<k, v>>]
    ELSE Append(d, <<k, v>>)
\* d[k], raising KeyError
GetItem(d, k) ==
    IF Has(d, k) THEN Ok(Get(d, k)) ELSE Raise("KeyError", "'" \o k \o "'")

-----------------------------------------------------------------------------
(* Exceptions: the rest of a computation runs only if the step did not raise *)

Bind(r, K(_)) == IF r.raised THEN r ELSE K(r.val)

\* try: r / except Exception: default
OrElse(r, default) == IF r.raised THEN default ELSE r.val

-----------------------------------------------------------------------------
(* The object protocol: str(), repr(), getattr(), calling, format() *)

\* repr() of a dict's items from the i-th on, "'k': v, 'k': v"
RECURSIVE reprItems(_, _, _)
RECURSIVE repr(_, _)
repr(v, c) ==
    CASE v.cls = "NoneType" -> Ok("None")
      [] v.cls = "int" -> Ok(ToString(v.n))
      [] v.cls = "str" -> Ok("'" \o v.s \o "'")
      [] v.cls = "bytes" -> Ok("b'" \o v.s \o "'")
      [] v.cls = "function" -> Ok("<function>")
      [] v.cls = "method" -> Ok("<bound method>")
      [] v.cls = "LogLevel" -> Ok("<LogLevel=" \o v.name \o ">")
      [] v.cls = "A" -> Ok("<A n=" \o ToString(c) \o ">")
      [] v.cls = "Unprintable" -> Raise("RuntimeError", "no repr")
      [] v.cls = "dict" ->
            Bind(reprItems(v.d, 1, c), LAMBDA items : Ok("{" \o items \o "}"))

reprItems(d, i, c) ==
    IF i > Len(d) THEN Ok("")
    ELSE Bind(repr(d[i][2], c), LAMBDA r :
         Bind(reprItems(d, i + 1, c), LAMBDA rest :
         Ok("'" \o d[i][1] \o "': " \o r \o (IF i < Len(d) THEN ", " ELSE "") \o rest)))

str(v, c) ==
    CASE v.cls = "str" -> Ok(v.s)
      [] v.cls = "Unprintable" -> Raise("RuntimeError", "no str")
      [] OTHER -> repr(v, c)

\* str() of a raised exception
strError(e) ==
    IF e.strOk THEN Ok(e.msg) ELSE Raise("RuntimeError", "no str")

\* twisted.python.reflect.safe_repr: repr(), or a placeholder where repr() fails
safe_repr(v, c) == OrElse(repr(v, c), "<" \o v.cls \o " instance with repr error>")

\* safe_repr of a raised exception
safe_reprError(e) == "<" \o e.type \o ">"

\* str() of the twisted.python.failure.Failure capturing exception e
strFailure(e) == "[Failure instance: " \o e.type \o "]"

\* getattr(obj, name)
getattr(obj, name, c) ==
    IF obj.cls = "A" /\ name = "n" THEN Ok(IntObj(c))
    ELSE IF obj.cls = "A" /\ name = "b" THEN Ok(Method("cell"))
    ELSE IF obj.cls = "LogLevel" /\ name = "name" THEN Ok(StrObj(obj.name))
    ELSE Raise("AttributeError", "'" \o obj.cls \o "' object has no attribute '" \o name \o "'")

\* obj(): a zero-argument invocation
call(obj, c) ==
    IF obj.cls \in {"function", "method"}
    THEN CASE obj.body = "cell" -> Ok(IntObj(c))
           [] obj.body = "seven" -> Ok(IntObj(7))
           [] obj.body = "raise" -> Raise("ValueError", "boom")
           [] obj.body = "raiseBad" -> RaiseBad("BadError")
    ELSE Raise("TypeError", "'" \o obj.cls \o "' object is not callable")

Digit(ch) ==
    CASE ch = "1" -> 1 [] ch = "2" -> 2 [] ch = "3" -> 3 [] ch = "4" -> 4
      [] ch = "5" -> 5 [] ch = "6" -> 6 [] ch = "7" -> 7 [] ch = "8" -> 8
      [] ch = "9" -> 9 [] OTHER -> 0

RECURSIVE PadLeft(_, _)
PadLeft(s, width) == IF Len(s) >= width THEN s ELSE PadLeft(" " \o s, width)

\* str.__format__ / int.__format__ on the text of the value: "" leaves it,
\* ">N" right-aligns it in N columns, the other specs of the model are invalid
applySpec(text, formatSpec) ==
    IF formatSpec = "" THEN Ok(text)
    ELSE IF Len(formatSpec) = 2 /\ Char(formatSpec, 1) = ">" /\ Digit(Char(formatSpec, 2)) > 0
    THEN Ok(PadLeft(text, Digit(Char(formatSpec, 2))))
    ELSE Raise("ValueError", "Invalid format specifier '" \o formatSpec \o "'")

\* Formatter.format_field, format(obj, formatSpec): object.__format__ is str()
\* and rejects every non-empty spec
format_field(obj, formatSpec, c) ==
    IF formatSpec # "" /\ obj.cls \notin {"int", "str"}
    THEN Raise("TypeError", "unsupported format string passed to " \o obj.cls \o ".__format__")
    ELSE Bind(str(obj, c), LAMBDA text : applySpec(text, formatSpec))

-----------------------------------------------------------------------------
(* string.Formatter, as theFormatter uses it *)

Item(literalText, fieldName, formatSpec, conversion) ==
    [literalText |-> literalText, fieldName |-> fieldName,
     formatSpec |-> formatSpec, conversion |-> conversion]

\* the tuples the iterator yields, and how it ends: Ok(None) or the error raised
Parsed(items, error) == [items |-> items, error |-> error]

\* The replacement field whose text (between the braces) is inner, after the
\* literal text lit: "fieldName", "fieldName!c", "fieldName:spec",
\* "fieldName!c:spec"; bang and colon are the places of the first "!" and ":".
parseFieldAt(lit, inner, bang, colon) ==
    IF bang # 0 /\ (colon = 0 \/ bang < colon)
    THEN IF bang = Len(inner)
         THEN Raise("ValueError", "end of string while looking for conversion specifier")
         ELSE IF bang + 1 = Len(inner)
         THEN Ok(Item(lit, SubSeq(inner, 1, bang - 1), "", Char(inner, bang + 1)))
         ELSE IF Char(inner, bang + 2) = ":"
         THEN Ok(Item(lit, SubSeq(inner, 1, bang - 1),
                      SubSeq(inner, bang + 3, Len(inner)), Char(inner, bang + 1)))
         ELSE Raise("ValueError", "expected ':' after conversion specifier")
    ELSE IF colon # 0
    THEN Ok(Item(lit, SubSeq(inner, 1, colon - 1), SubSeq(inner, colon + 1, Len(inner)), NoneTok))
    ELSE Ok(Item(lit, inner, "", NoneTok))

parseField(lit, inner) == parseFieldAt(lit, inner, Find(inner, "!", 1), Find(inner, ":", 1))

\* Formatter.parse from position i, lit being the literal text read since the
\* last tuple.  The iterator is lazy: the tuples before a malformed place are
\* produced, then the error is raised.  Replacement fields nested in a format
\* spec and brackets in a field name are outside the model.
RECURSIVE parseFrom(_, _, _, _)
parseReplacement(t, lit, acc, open, close, f) ==
    IF close = 0 THEN Parsed(acc, Raise("ValueError", "expected '}' before end of string"))
    ELSE IF f.raised THEN Parsed(acc, f)
    ELSE parseFrom(t, close + 1, "", Append(acc, f.val))

parseClose(t, i) == Find(t, "}", i + 1)

parseFrom(t, i, lit, acc) ==
    IF i > Len(t)
    THEN Parsed(IF lit = "" THEN acc ELSE Append(acc, Item(lit, NoneTok, NoneTok, NoneTok)),
                Ok(None))
    ELSE IF Char(t, i) = "{"
    THEN IF i < Len(t) /\ Char(t, i + 1) = "{"
         THEN parseFrom(t, i + 2, "", Append(acc, Item(lit \o "{", NoneTok, NoneTok, NoneTok)))
         ELSE parseReplacement(t, lit, acc, i, parseClose(t, i),
                               parseField(lit, SubSeq(t, i + 1, parseClose(t, i) - 1)))
    ELSE IF Char(t, i) = "}"
    THEN IF i < Len(t) /\ Char(t, i + 1) = "}"
         THEN parseFrom(t, i + 2, "", Append(acc, Item(lit \o "}", NoneTok, NoneTok, NoneTok)))
         ELSE Parsed(acc, Raise("ValueError", "Single '}' encountered in format string"))
    ELSE parseFrom(t, i + 1, lit \o Char(t, i), acc)

\* theFormatter.parse(format): only text can be parsed
parse(fmt) ==
    IF fmt.cls = "str" THEN parseFrom(fmt.s, 1, "", <<>>)
    ELSE Parsed(<<>>, Raise("TypeError", "expected str, got " \o fmt.cls))

\* "a.b.c" -> <<"a", "b", "c">>
RECURSIVE splitPathAt(_, _)
splitPath(name) == splitPathAt(name, Find(name, ".", 1))
splitPathAt(name, dot) ==
    IF dot = 0 THEN <<name>>
    ELSE <<SubSeq(name, 1, dot - 1)>> \o splitPath(SubSeq(name, dot + 1, Len(name)))

CallMapping(submapping) == [cls |-> "CallMapping", submapping |-> submapping]

\* CallMapping.__getitem__
CallMapping_getitem(self, key, c) ==
    LET callit == EndsWith(key, "()")
        realKey == IF callit THEN SubSeq(key, 1, Len(key) - 2) ELSE key
    IN  Bind(GetItem(self.submapping, realKey), LAMBDA value :
             IF callit THEN call(value, c) ELSE Ok(value))

\* kwargs[key] for the mapping given to the formatter
getitem(kwargs, key, c) ==
    IF kwargs.cls = "CallMapping" THEN CallMapping_getitem(kwargs, key, c)
    ELSE GetItem(kwargs.d, key)

RECURSIVE getattrs(_, _, _, _)
getattrs(obj, names, i, c) ==
    IF i > Len(names) THEN Ok(obj)
    ELSE Bind(getattr(obj, names[i], c), LAMBDA next : getattrs(next, names, i + 1, c))

getPath(path, kwargs, c) ==
    Bind(getitem(kwargs, path[1], c), LAMBDA first : getattrs(first, path, 2, c))

\* theFormatter.get_field(fieldName, (), kwargs)[0]: the first component of the
\* path is looked up in kwargs, the others are attributes
get_field(fieldName, kwargs, c) == getPath(splitPath(fieldName), kwargs, c)

\* Formatter.convert_field; the result of a conversion is text
convert_field(value, conversion, c) ==
    CASE conversion = NoneTok -> Ok(value)
      [] conversion = "s" -> Bind(str(value, c), LAMBDA text : Ok(StrObj(text)))
      [] conversion \in {"r", "a"} -> Bind(repr(value, c), LAMBDA text : Ok(StrObj(text)))
      [] OTHER -> Raise("ValueError", "Unknown conversion specifier " \o conversion)

\* Formatter.vformat's loop from tuple i on, result being the text so far
RECURSIVE vformatFrom(_, _, _, _, _)
vformatFrom(p, i, result, kwargs, c) ==
    IF i > Len(p.items) THEN Bind(p.error, LAMBDA none : Ok(result))
    ELSE IF p.items[i].fieldName = NoneTok
    THEN vformatFrom(p, i + 1, result \o p.items[i].literalText, kwargs, c)
    ELSE Bind(get_field(p.items[i].fieldName, kwargs, c), LAMBDA obj :
         Bind(convert_field(obj, p.items[i].conversion, c), LAMBDA converted :
         Bind(format_field(converted, p.items[i].formatSpec, c), LAMBDA text :
         vformatFrom(p, i + 1, result \o p.items[i].literalText \o text, kwargs, c))))

\* formatWithCall(formatString, mapping)
formatWithCall(formatString, mapping, c) ==
    vformatFrom(parse(StrObj(formatString)), 1, "", CallMapping(mapping), c)

-----------------------------------------------------------------------------
(* KeyFlattener *)

\* KeyFlattener.__init__: self.keys = defaultdict(lambda: 0)
NewKeys == [k \in {} |-> 0]

\* "{x}".format(x=v) for a str or None
strOrNone(v) == IF v = NoneTok THEN "None" ELSE v

\* (v or "")
orEmpty(v) == IF v = NoneTok THEN "" ELSE v

\* the canonical key "{fieldName}!{conversion}:{formatSpec}"
canonicalKey(fieldName, formatSpec, conversion) ==
    strOrNone(fieldName) \o "!" \o orEmpty(conversion) \o ":" \o orEmpty(formatSpec)

\* flatKey suffixing every key, the first one too
countKeyAlwaysSuffixed(ks, result, n) ==
    [keys |-> [k \in DOMAIN ks \cup {result} |-> IF k = result THEN n ELSE ks[k]],
     key |-> result \o "/" \o ToString(n)]

\* self.keys[result] += 1; n = self.keys[result]; the key suffixed unless n = 1
countKey(ks, result, n) ==
    [keys |-> [k \in DOMAIN ks \cup {result} |-> IF k = result THEN n ELSE ks[k]],
     key |-> IF n # 1 THEN result \o "/" \o ToString(n) ELSE result]

\* self.keys[result], a defaultdict's
countOf(ks, result) == IF result \in DOMAIN ks THEN ks[result] ELSE 0

\* KeyFlattener.flatKey on self.keys = ks: the counters after the call and the
\* key returned
flatKey(ks, fieldName, formatSpec, conversion) ==
    countKey(ks, canonicalKey(fieldName, formatSpec, conversion),
             countOf(ks, canonicalKey(fieldName, formatSpec, conversion)) + 1)

-----------------------------------------------------------------------------
(* flattenEvent *)

Flat(outcome, fields, log) == [outcome |-> outcome, fields |-> fields, resolved |-> log]

\* a step of the loop's body: its failure ends flattenEvent
FlatBind(r, fields, log, K(_)) == IF r.raised THEN Flat(r, fields, log) ELSE K(r.val)

\* flattenEvent without its dedup check
neverHandled(fields, flattenedKey) == FALSE

\* "if flattenedKey in fields": we've already seen and handled this key
alreadyHandled(fields, flattenedKey) == Has(fields, flattenedKey)

\* "if conversion != 'r': conversion = 's'"
effectiveConversion(conversion) == IF conversion # "r" THEN "s" ELSE conversion

\* conversionFunction(fieldValue)
conversionFunction(conversion, fieldValue, c) ==
    CASE conversion = "s" -> str(fieldValue, c)
      [] conversion = "r" -> repr(fieldValue, c)
      [] OTHER -> Ok(fieldValue)

\* fieldName without its call suffix
stripCall(fieldName) ==
    IF EndsWith(fieldName, "()") THEN SubSeq(fieldName, 1, Len(fieldName) - 2) ELSE fieldName

\* flattenEvent's loop from tuple i on: fields is the dict built so far, ks the
\* KeyFlattener's counters, log the references resolved so far, each as
\* <<fieldName, formatSpec, conversion>>
RECURSIVE flattenFrom(_, _, _, _, _, _, _)
flattenItem(p, i, fields, it, conversion, flattenedKey, k2, log, ev, c) ==
    IF alreadyHandled(fields, flattenedKey)
    THEN flattenFrom(p, i + 1, fields, k2.keys, log, ev, c)
    ELSE IF it.fieldName = NoneTok
    THEN Flat(Raise("AttributeError", "'NoneType' object has no attribute 'endswith'"),
              fields, log)
    ELSE FlatBind(get_field(stripCall(it.fieldName), DictObj(ev), c),
                  fields, Append(log, <<it.fieldName, it.formatSpec, conversion>>),
                  LAMBDA field :
         FlatBind(IF EndsWith(it.fieldName, "()") THEN call(field, c) ELSE Ok(field),
                  fields, Append(log, <<it.fieldName, it.formatSpec, conversion>>),
                  LAMBDA fieldValue :
         FlatBind(conversionFunction(conversion, fieldValue, c),
                  fields, Append(log, <<it.fieldName, it.formatSpec, conversion>>),
                  LAMBDA flattenedValue :
         flattenFrom(p, i + 1,
                     Set(Set(fields, flattenedKey, StrObj(flattenedValue)),
                         k2.key, fieldValue),
                     k2.keys, Append(log, <<it.fieldName, it.formatSpec, conversion>>),
                     ev, c))))

\* flattenedKey = flatKey(fieldName, formatSpec, conversion) gave k1;
\* structuredKey = flatKey(fieldName, formatSpec, "") follows on its counters
flattenKeys(p, i, fields, it, conversion, k1, log, ev, c) ==
    flattenItem(p, i, fields, it, conversion, k1.key,
                flatKey(k1.keys, it.fieldName, it.formatSpec, ""), log, ev, c)

flattenFrom(p, i, fields, ks, log, ev, c) ==
    IF i > Len(p.items) THEN Flat(p.error, fields, log)
    ELSE flattenKeys(p, i, fields, p.items[i], effectiveConversion(p.items[i].conversion),
                     flatKey(ks, p.items[i].fieldName, p.items[i].formatSpec,
                             effectiveConversion(p.items[i].conversion)),
                     log, ev, c)

\* flattenEvent storing what it has when it fails
storePartial(ev, f) ==
    [event |-> Set(ev, "log_flattened", DictObj(f.fields)),
     outcome |-> f.outcome,
     resolved |-> f.resolved]

\* event["log_flattened"] = fields, reached only if the loop did not raise
storeFlattened(ev, f) ==
    [event |-> IF f.outcome.raised THEN ev ELSE Set(ev, "log_flattened", DictObj(f.fields)),
     outcome |-> f.outcome,
     resolved |-> f.resolved]

\* flattenEvent(event): the event after the call, the call's outcome and the
\* references it resolved
flattenEvent(ev, c) ==
    IF ~Has(ev, "log_format")
    THEN [event |-> ev, outcome |-> Ok(None), resolved |-> <<>>]
    ELSE storeFlattened(ev, flattenFrom(parse(Get(ev, "log_format")), 1, <<>>, NewKeys,
                                        <<>>, ev, c))

-----------------------------------------------------------------------------
(* flatFormat, formatEvent, formatUnformattableEvent *)

\* (conversion or "s")
orS(conversion) == IF conversion = NoneTok THEN "s" ELSE conversion

\* the key flatFormat looks up for tuple it
flatFormatKey(ks, it) == flatKey(ks, it.fieldName, it.formatSpec, orS(it.conversion))

\* flatFormat's loop from tuple i on, s being the text so far
RECURSIVE flatFormatFrom(_, _, _, _, _, _)
flatFormatItem(p, i, s, fields, k, c) ==
    Bind(GetItem(fields, k.key), LAMBDA value :
    Bind(str(value, c), LAMBDA text :
    flatFormatFrom(p, i + 1, s \o p.items[i].literalText \o text, fields, k.keys, c)))

flatFormatFrom(p, i, s, fields, ks, c) ==
    IF i > Len(p.items) THEN Bind(p.error, LAMBDA none : Ok(s))
    ELSE flatFormatItem(p, i, s, fields, flatFormatKey(ks, p.items[i]), c)

\* flatFormat(event)
flatFormat(ev, c) ==
    Bind(GetItem(ev, "log_flattened"), LAMBDA fields :
    Bind(GetItem(ev, "log_format"), LAMBDA fmt :
    flatFormatFrom(parse(fmt), 1, "", fields.d, NewKeys, c)))

\* u"Unable to format event {event!r}: {error}".format(event=event, error=error)
unableToFormat(ev, error, c) ==
    Bind(repr(DictObj(ev), c), LAMBDA evRepr :
    Bind(strError(error), LAMBDA errStr :
    Ok("Unable to format event " \o evRepr \o ": " \o errStr)))

\* the except branch of formatUnformattableEvent, failure being what the first
\* attempt raised
messageLost(ev, error, failure, c) ==
    Ok("MESSAGE LOST: unformattable object logged: " \o safe_reprError(error)
       \o "\nRecoverable data: "
       \o Join(", ", [i \in 1..Len(ev) |->
                Join(" = ", <<"'" \o ev[i][1] \o "'", safe_repr(ev[i][2], c)>>)])
       \o "\nException during formatting:\n" \o strFailure(failure))

unformattable(first, ev, error, c) ==
    IF first.raised THEN messageLost(ev, error, first, c) ELSE first

\* formatUnformattableEvent without its except branch
formatUnformattableEventFirstTierOnly(ev, error, c) == unableToFormat(ev, error, c)

\* formatUnformattableEvent(event, error)
formatUnformattableEvent(ev, error, c) ==
    unformattable(unableToFormat(ev, error, c), ev, error, c)

\* the format of formatEvent's try block
formatLive(fmt, ev, c) ==
    IF IsNone(fmt) THEN Ok("")
    ELSE IF fmt.cls \in {"bytes", "str"} THEN formatWithCall(fmt.s, ev, c)
    ELSE Bind(repr(fmt, c), LAMBDA text :
              Raise("TypeError", "Log format must be unicode or bytes, not " \o text))

\* the body of formatEvent's try block
formatEventTry(ev, c) ==
    IF Has(ev, "log_flattened") THEN flatFormat(ev, c)
    ELSE formatLive(GetOrNone(ev, "log_format"), ev, c)

\* "except Exception as e: return formatUnformattableEvent(event, e)"
formatEventExcept(r, ev, c) ==
    IF r.raised THEN formatUnformattableEvent(ev, r, c) ELSE r

\* formatEvent(event)
formatEvent(ev, c) == formatEventExcept(formatEventTry(ev, c), ev, c)

-----------------------------------------------------------------------------
(* extractField *)

Call(ev, outcome, log) == [event |-> ev, outcome |-> outcome, resolved |-> log]

\* return event["log_flattened"][key], f being what flattenEvent did
extractValue(key, f) ==
    IF f.outcome.raised THEN f
    ELSE Call(f.event,
              Bind(GetItem(f.event, "log_flattened"), LAMBDA fields : GetItem(fields.d, key)),
              f.resolved)

\* extractField after the field has been parsed into p
extractParsed(p, ev, c) ==
    IF p.error.raised THEN Call(ev, p.error, <<>>)
    ELSE IF Len(p.items) # 1
    THEN Call(ev, Raise("ValueError", "wrong number of values to unpack"), <<>>)
    ELSE extractValue(flatKey(NewKeys, p.items[1].fieldName, p.items[1].formatSpec,
                              p.items[1].conversion).key,
                      IF Has(ev, "log_flattened") THEN Call(ev, Ok(None), <<>>)
                      ELSE flattenEvent(ev, c))

\* extractField(field, event): the event after the call and the outcome
extractField(field, ev, c) == extractParsed(parse(StrObj("{" \o field \o "}")), ev, c)

-----------------------------------------------------------------------------
(* formatTime, formatEventAsClassicLogText *)

\* datetime.strftime of the timestamp at the offset in effect then
strftime(when, timeFormat) == timeFormat \o "@" \o ToString(when.n)

timeFormatRFC3339 == "%Y-%m-%dT%H:%M:%S%z"

\* formatTime(when, timeFormat=timeFormatRFC3339, default=u"-")
formatTime(when, timeFormat, default) ==
    IF timeFormat = NoneTok \/ IsNone(when) THEN default
    ELSE strftime(when, timeFormat)

\* level.name, or u"-" if there is no level
levelName(level, c) == IF IsNone(level) THEN Ok(StrObj("-")) ELSE getattr(level, "name", c)

\* u"{namespace}#{level}".format(namespace=..., level=levelName)
namespaceAndLevel(ev, c) ==
    Bind(levelName(GetOrNone(ev, "log_level"), c), LAMBDA level :
    Bind(str(IF Has(ev, "log_namespace") THEN Get(ev, "log_namespace") ELSE StrObj("-"), c),
         LAMBDA nsText :
    Bind(str(level, c), LAMBDA levelText :
    Ok(nsText \o "#" \o levelText))))

\* the system of the classic text
classicSystem(ev, c) ==
    IF IsNone(GetOrNone(ev, "log_system")) THEN namespaceAndLevel(ev, c)
    ELSE Ok(OrElse(str(Get(ev, "log_system"), c), "UNFORMATTABLE"))

\* formatEventAsClassicLogText leaving the newlines of the text alone
classicLineUnindented(eventText, ev, c) ==
    IF eventText = "" THEN Ok(None)
    ELSE Bind(classicSystem(ev, c), LAMBDA system :
         Ok(StrObj(formatTime(GetOrNone(ev, "log_time"), timeFormatRFC3339, "-")
                   \o " [" \o system \o "] " \o eventText \o "\n")))

\* the classic text of an event whose text is eventText
classicLine(eventText, ev, c) ==
    IF eventText = "" THEN Ok(None)
    ELSE Bind(classicSystem(ev, c), LAMBDA system :
         Ok(StrObj(formatTime(GetOrNone(ev, "log_time"), timeFormatRFC3339, "-")
                   \o " [" \o system \o "] "
                   \o Replace(eventText, "\n", "\n\t") \o "\n")))

\* formatEventAsClassicLogText(event, formatTime=formatTime)
formatEventAsClassicLogText(ev, c) ==
    Bind(formatEvent(ev, c), LAMBDA eventText : classicLine(eventText, ev, c))

-----------------------------------------------------------------------------
(* The events of the model *)

Templates ==
    {"Hello!", "{x}", "{x} and {x}", "{x!r}", "{x!a}", "{x:>3}", "{x:/2}{x}{x}",
     "{function()}", "{function()}{function()}", "{a.b()}", "{a.n}", "{missing}",
     "{x} {missing}", "{x} tail", "line\n{x}"}

Formats == {StrObj(t) : t \in Templates} \cup {BytesObj("{x}"), IntObj(7)}

XValues == {IntObj(5), StrObj("hi"), Unprintable}

FunctionValues == {Function("cell"), Function("seven"), Function("raise"),
                   Function("raiseBad"), IntObj(7)}

Fields(x, function) == << <<"x", x>>, <<"function", function>>, <<"a", ObjectA>> >>

\* a dict without the keys whose value is None
Present(d) == SelectSeq(d, LAMBDA kv : ~IsNone(kv[2]))

Events ==
    \* application fields and a format
    {Append(Fields(x, Function("cell")), <<"log_format", fmt>>) :
        x \in XValues, fmt \in Formats}
    \* a field to invoke, with and without a format
    \cup {<< <<"function", f>>, <<"log_format", StrObj("{function()}")>> >> :
            f \in FunctionValues}
    \cup {<< <<"function", f>> >> : f \in FunctionValues}
    \cup {<<>>}
    \* the keys of the classic text
    \cup {Present(<< <<"x", IntObj(5)>>, <<"log_format", fmt>>, <<"log_time", time>>,
                     <<"log_system", system>>, <<"log_namespace", namespace>>,
                     <<"log_level", level>> >>) :
            fmt \in {None, StrObj("Hello!"), StrObj("line\n{x}")},
            time \in {None, IntObj(0)},
            system \in {None, StrObj("sys"), Unprintable},
            namespace \in {None, StrObj("ns")},
            level \in {None, Level("info")}}
    \* an event that arrives flattened, its live fields gone
    \cup {Present(<< <<"log_format", fmt>>, <<"log_flattened", DictObj(fields)>> >>) :
            fmt \in {None, StrObj("{x}"), StrObj("{x} tail"), StrObj("{missing}")},
            fields \in {<<>>, << <<"x!s:", StrObj("5")>>, <<"x!:", IntObj(5)>> >>,
                        << <<"x!s:", Unprintable>> >>}}

ExtractFields == {"function()", "x", "x!r", "missing"}

-----------------------------------------------------------------------------
(* The life of one event *)

Init ==
    /\ event \in Events
    /\ cell = 0
    /\ op = "init"
    /\ arg = ""
    /\ ret = Ok(None)
    /\ flattened = FALSE
    /\ resolved = <<>>
    /\ liveText = <<>>
    /\ snapText = <<>>
    /\ keys = NewKeys
    /\ calls = <<>>

\* text = formatEvent(event)
Format ==
    /\ op' = "format"
    /\ arg' = ""
    /\ ret' = formatEvent(event, cell)
    /\ liveText' = IF Has(event, "log_flattened") THEN liveText ELSE <<ret'>>
    /\ snapText' = IF flattened /\ snapText = <<>> THEN <<ret'>> ELSE snapText
    /\ UNCHANGED <<event, cell, flattened, resolved, keys, calls>>

\* what a call did to the event, its outcome and the references it resolved
Flattened(f) ==
    /\ event' = f.event
    /\ ret' = f.outcome
    /\ resolved' = f.resolved

\* flattenEvent(event)
Flatten ==
    /\ op' = "flatten"
    /\ arg' = ""
    /\ Flattened(flattenEvent(event, cell))
    /\ LET stored == Has(event, "log_format") /\ ~ret'.raised
       IN  /\ flattened' = (flattened \/ stored)
           /\ liveText' = IF stored /\ flattened THEN <<>> ELSE liveText
           /\ snapText' = IF stored THEN <<>> ELSE snapText
    /\ UNCHANGED <<cell, keys, calls>>

\* value = extractField(field, event)
Extract ==
    \E field \in ExtractFields :
        /\ op' = "extract"
        /\ arg' = field
        /\ Flattened(extractField(field, event, cell))
        /\ flattened' = (flattened \/ event' # event)
        /\ UNCHANGED <<cell, liveText, snapText, keys, calls>>

\* line = formatEventAsClassicLogText(event)
Classic ==
    /\ op' = "classic"
    /\ arg' = ""
    /\ ret' = formatEventAsClassicLogText(event, cell)
    /\ UNCHANGED <<event, cell, flattened, resolved, liveText, snapText, keys, calls>>

\* the application rebinds a field: event["x"] = v
Rebind ==
    \E v \in XValues :
        /\ Has(event, "x")
        /\ Get(event, "x") # v
        /\ event' = Set(event, "x", v)
        /\ op' = "rebind"
        /\ arg' = ""
        /\ ret' = Ok(None)
        /\ liveText' = IF flattened THEN liveText ELSE <<>>
        /\ UNCHANGED <<cell, flattened, resolved, snapText, keys, calls>>

\* the application mutates the object the fields refer to; what a.n, a.b()
\* and function() give changes with it
Mutate ==
    \E n \in 0..MaxCell :
        /\ n # cell
        /\ \E i \in 1..Len(event) : event[i][1] \in {"a", "function"}
        /\ cell' = n
        /\ op' = "mutate"
        /\ arg' = ""
        /\ ret' = Ok(None)
        /\ liveText' = IF flattened THEN liveText ELSE <<>>
        /\ UNCHANGED <<event, flattened, resolved, snapText, keys, calls>>

Next == Format \/ Flatten \/ Extract \/ Classic \/ Rebind \/ Mutate

Spec == Init /\ [][Next]_vars

-----------------------------------------------------------------------------
(* The life of one KeyFlattener *)

FieldNames == {"x"}
FormatSpecs == {NoneTok, "", "/2"}
Conversions == {NoneTok, "", "s"}

InitKeys ==
    /\ event = <<>>
    /\ cell = 0
    /\ op = "init"
    /\ arg = ""
    /\ ret = Ok(None)
    /\ flattened = FALSE
    /\ resolved = <<>>
    /\ liveText = <<>>
    /\ snapText = <<>>
    /\ keys = NewKeys
    /\ calls = <<>>

Called(fieldName, formatSpec, conversion, r) ==
    /\ keys' = r.keys
    /\ calls' = Append(calls, <<fieldName, formatSpec, conversion, r.key>>)

\* key = keyFlattener.flatKey(fieldName, formatSpec, conversion)
FlatKeyCall ==
    \E fieldName \in FieldNames, formatSpec \in FormatSpecs, conversion \in Conversions :
        /\ Len(calls) < MaxCalls
        /\ Called(fieldName, formatSpec, conversion,
                  flatKey(keys, fieldName, formatSpec, conversion))
        /\ UNCHANGED <<event, cell, op, arg, ret, flattened, resolved, liveText, snapText>>

NextKeys == FlatKeyCall

SpecKeys == InitKeys /\ [][NextKeys]_vars

-----------------------------------------------------------------------------
(* formatEvent *)

\* C1: formatEvent never raises; whatever the event holds, it returns text.
C1_FormatEventNeverRaises ==
    op = "format" => (~ret.raised /\ ret.val \in STRING)

\* formatEvent went through both tiers of formatUnformattableEvent
C1_SecondTierReached ==
    /\ op = "format"
    /\ ~ret.raised
    /\ StartsWith(ret.val, "MESSAGE LOST: unformattable object logged: ")

\* the text is one of formatUnformattableEvent
C2_Fallback(text) ==
    StartsWith(text, "Unable to format event ") \/ StartsWith(text, "MESSAGE LOST: ")

\* C2: when flattenEvent has completed on an event that formatEvent rendered
\* just before, in the same state of its fields, formatEvent gives that text
\* again.
C2_FlattenThenFormatEqualsLive ==
    (/\ op = "flatten"
     /\ ~ret.raised
     /\ Has(event, "log_format")
     /\ liveText # <<>>
     /\ ~C2_Fallback(liveText[1].val))
        => formatEvent(event, cell) = liveText[1]

\* C3: once flattenEvent has stored log_flattened, the text of formatEvent is
\* the one it gave first, whatever has been rebound or mutated since.
C3_SnapshotIsolation ==
    (op = "format" /\ flattened /\ snapText # <<>>) => ret = snapText[1]

\* C4: extractField("function()", event) on an event without log_format and
\* log_flattened whose "function" is a callable returns what the call returns.
C4_ExtractCallResult ==
    (/\ op = "extract"
     /\ arg = "function()"
     /\ ~Has(event, "log_format")
     /\ ~Has(event, "log_flattened")
     /\ Has(event, "function")
     /\ GetOrNone(event, "function").cls = "function"
     /\ GetOrNone(event, "function").body \in {"cell", "seven"})
        => ret = call(Get(event, "function"), cell)

-----------------------------------------------------------------------------
(* KeyFlattener.flatKey *)

\* a call's arguments with an absent formatSpec or conversion taken as empty
C5_Triple(k) ==
    <<k[1], IF k[2] = NoneTok THEN "" ELSE k[2], IF k[3] = NoneTok THEN "" ELSE k[3]>>

\* how many of the first i calls were made with the triple of the i-th
C5_Nth(i) == Cardinality({j \in 1..i : C5_Triple(calls[j]) = C5_Triple(calls[i])})

C5_Key(t, n) ==
    t[1] \o "!" \o t[3] \o ":" \o t[2] \o (IF n = 1 THEN "" ELSE "/" \o ToString(n))

\* C5: the n-th call with a triple returns fieldName!conversion:formatSpec if
\* n = 1 and that key followed by "/" and n otherwise, whatever calls with
\* other triples come in between.
C5_NthCallKey ==
    \A i \in 1..Len(calls) : calls[i][4] = C5_Key(C5_Triple(calls[i]), C5_Nth(i))

\* one triple has been used three times, with another one in between
C5_ThirdOccurrence ==
    \E i \in 1..Len(calls) :
        /\ C5_Nth(i) = 3
        /\ calls[i][4] = "x!s:/3"
        /\ \E j \in 1..(i - 1) : C5_Triple(calls[j]) # C5_Triple(calls[i])

\* C6: a call that repeats the arguments of an earlier call returns a key that
\* no earlier call has returned.
C6_KeyFreshness ==
    \A i \in 1..Len(calls) :
        (\E j \in 1..(i - 1) : SubSeq(calls[j], 1, 3) = SubSeq(calls[i], 1, 3))
            => \A k \in 1..(i - 1) : calls[k][4] # calls[i][4]

-----------------------------------------------------------------------------
(* formatEventAsClassicLogText *)

\* text with a tab after each of its newlines
RECURSIVE C7_Indented(_)
C7_Indented(text) ==
    IF Len(text) = 0 THEN ""
    ELSE IF Len(text) = 1 THEN (IF text = "\n" THEN "\n\t" ELSE text)
    ELSE C7_Indented(SubSeq(text, 1, Len(text) \div 2))
         \o C7_Indented(SubSeq(text, Len(text) \div 2 + 1, Len(text)))

C7_TimeStamp ==
    IF Has(event, "log_time") THEN timeFormatRFC3339 \o "@" \o ToString(Get(event, "log_time").n)
    ELSE "-"

C7_System ==
    IF Has(event, "log_system")
    THEN (IF Get(event, "log_system").cls = "str" THEN Get(event, "log_system").s
          ELSE "UNFORMATTABLE")
    ELSE (IF Has(event, "log_namespace") THEN Get(event, "log_namespace").s ELSE "-")
         \o "#"
         \o (IF Has(event, "log_level") THEN Get(event, "log_level").name ELSE "-")

C7_Line(eventText) ==
    IF eventText = "" THEN None
    ELSE StrObj(C7_TimeStamp \o " [" \o C7_System \o "] " \o C7_Indented(eventText) \o "\n")

\* C7: formatEventAsClassicLogText returns None exactly when the text of
\* formatEvent is empty, and otherwise "timeStamp [system] text\n" with a tab
\* after every newline of the text, the time formatter's text of log_time, and
\* for the system str(log_system), "UNFORMATTABLE" if that fails, or
\* namespace#levelName, each "-" when absent.
C7_ClassicLogText ==
    op = "classic" => ret = Ok(C7_Line(formatEvent(event, cell).val))

\* a two-line text under a system and a time of its own
C7_IndentedLine ==
    /\ op = "classic"
    /\ ret = Ok(StrObj("%Y-%m-%dT%H:%M:%S%z@0 [sys] line\n\t5\n"))

-----------------------------------------------------------------------------
(* flattenEvent *)

\* C8: after flattenEvent has completed, flatFormat finds every key it looks
\* up in log_flattened.
C8_FlatFormatFindsKeys ==
    (op = "flatten" /\ ~ret.raised /\ Has(event, "log_format"))
        => ~flatFormat(event, cell).raised

\* C9, as stated: flattenEvent resolves a fieldName/formatSpec/conversion
\* combination once, however often the template refers to it.
C9_CombinationResolvedOnce ==
    (op = "flatten" /\ ~ret.raised)
        => \A i, j \in 1..Len(resolved) : i # j => resolved[i] # resolved[j]

C9_Conversion(it) == IF it.conversion = "r" THEN "r" ELSE "s"

C9_Same(a, b) ==
    /\ a.fieldName = b.fieldName
    /\ a.formatSpec = b.formatSpec
    /\ C9_Conversion(a) = C9_Conversion(b)

\* the key of the i-th reference of the template: that of its combination,
\* suffixed with the occurrence's number from the second on
C9_OccurrenceKey(items, i) ==
    C5_Key(<<items[i].fieldName, items[i].formatSpec, C9_Conversion(items[i])>>,
           Cardinality({j \in 1..i : C9_Same(items[j], items[i])}))

\* the references flattenEvent has to resolve: those whose key no earlier
\* reference has
RECURSIVE C9_ToResolve(_, _)
C9_ToResolve(items, i) ==
    IF i = 0 THEN <<>>
    ELSE IF \E j \in 1..(i - 1) : C9_OccurrenceKey(items, j) = C9_OccurrenceKey(items, i)
    THEN C9_ToResolve(items, i - 1)
    ELSE Append(C9_ToResolve(items, i - 1),
                <<items[i].fieldName, items[i].formatSpec, C9_Conversion(items[i])>>)

C9_Resolved(items) == C9_ToResolve(items, Len(items))

\* C9, amended: flattenEvent resolves every occurrence of a reference, in the
\* template's order, each under the suffixed key of its occurrence; it skips
\* an occurrence only where that key is one an earlier occurrence was stored
\* under.
C9_EachOccurrenceResolved ==
    (op = "flatten" /\ ~ret.raised /\ Has(event, "log_format"))
        => resolved = C9_Resolved(parse(Get(event, "log_format")).items)

\* one combination resolved for two occurrences
C9_ResolvedTwice ==
    /\ op = "flatten"
    /\ ~ret.raised
    /\ Len(resolved) = 2
    /\ resolved[1] = resolved[2]

\* C10: a flattenEvent that raises leaves the event as it was, and so does one
\* on an event without log_format; extractField lets the failure through.
C10_AllOrNothing ==
    [][/\ (op' = "flatten" /\ ret'.raised) => event' = event
       /\ (op' = "flatten" /\ ~Has(event, "log_format")) => (event' = event /\ ~ret'.raised)
       /\ (op' = "extract" /\ ~Has(event, "log_flattened")
              /\ flattenEvent(event, cell).outcome.raised)
            => (event' = event /\ ret' = flattenEvent(event, cell).outcome)]_vars

\* flattenEvent failed on the second field of its template
C10_FailedPartWay ==
    /\ op = "flatten"
    /\ ret.raised
    /\ ret.type = "KeyError"
    /\ Len(resolved) = 2
    /\ ~Has(event, "log_flattened")

====
